---------------------------- MODULE Spec2Model ----------------------------
(***************************************************************************)
(* Model of the legal RAG pipeline of law_RAG_demo: the normalizer and     *)
(* the chunker (acts_scraper.py), the section extractor, the short-chunk   *)
(* merge and re-index (ingestion_helper.py), the indexer (index_rag.py)    *)
(* and the query service (app.py): corpus load, dual lookup,               *)
(* reciprocal-rank fusion, clarification gate, context assembly.           *)
(*                                                                         *)
(* Strings are sequences of one-character strings, so that lower(),        *)
(* strip(), len(), `in` and == are computed, not assumed.  RRF scores are  *)
(* exact fractions [n, d] with d > 0.                                      *)
(***************************************************************************)
EXTENDS Integers, Sequences, FiniteSets, TLC

VARIABLES
    pc,          \* position of the running program / handler
    dense,       \* ranked list returned by the semantic lookup
    sparse,      \* ranked list returned by the lexical lookup
    k,           \* rrf: output size
    k_rrf,       \* rrf: fusion constant
    scores,      \* rrf: the `scores` dict, in insertion order
    fused,       \* rrf: the returned list
    txt,         \* chunk_text: the text to split
    max_chars,   \* chunk_text: the size limit
    blocks,      \* chunk_text: the paragraphs not yet visited
    buf,         \* chunk_text: the buffer being accumulated
    chunks,      \* chunk_text: the chunks emitted so far
    df,          \* ingestion: the rows of the chunk CSV (the data frame)
    min_chars,   \* ingestion: MIN_CHARS
    merged_rows, \* ingestion: the merged rows
    out_records, \* ingestion: the enriched records
    jsonl,       \* the corpus file: written by ingestion, read by the service
    COL,         \* service: the vector collection
    RECORDS,     \* service: the loaded corpus
    BM25_DEFAULT,\* service: <<index, pool>> over the whole corpus
    req,         \* ask: the request
    norm,        \* ask: the final result list
    clarify_msg, \* ask: what need_clarify returned
    ctx,         \* ask: the assembled context
    response,    \* ask: the response or the HTTP error
    calls,       \* ask: the lookups, gate and generation calls made, in order
    strings,     \* normalizer: the text nodes of the document container
    text,        \* normalizer: the canonical text
    renorm,      \* normalizer: the canonical text post-processed once more
    sec_text,    \* extract_section_no: the chunk text
    section_no   \* extract_section_no: what it returned

fusionVars == <<dense, sparse, k, k_rrf, scores, fused>>
chunkVars == <<txt, max_chars, blocks, buf, chunks>>
ingestVars == <<df, min_chars, merged_rows, out_records, jsonl>>
askVars == <<COL, RECORDS, BM25_DEFAULT, req, norm, clarify_msg, ctx,
             response, calls>>
normVars == <<strings, text, renorm>>
sectionVars == <<sec_text, section_no>>
vars == <<pc, fusionVars, chunkVars, ingestVars, askVars, normVars, sectionVars>>

Nil == <<>>

\* the variables of a component a specification does not run
FusionIdle ==
    /\ dense = Nil /\ sparse = Nil /\ k = 0 /\ k_rrf = 0
    /\ scores = Nil /\ fused = Nil
ChunkIdle ==
    /\ txt = Nil /\ max_chars = 0 /\ blocks = Nil /\ buf = Nil /\ chunks = Nil
IngestIdle ==
    /\ df = Nil /\ min_chars = 0 /\ merged_rows = Nil /\ out_records = Nil
    /\ jsonl = Nil
AskIdle ==
    /\ COL = Nil /\ RECORDS = Nil /\ BM25_DEFAULT = Nil /\ req = Nil
    /\ norm = Nil /\ clarify_msg = Nil /\ ctx = Nil /\ response = Nil
    /\ calls = Nil
NormIdle ==
    /\ strings = Nil /\ text = Nil /\ renorm = Nil
SectionIdle ==
    /\ sec_text = Nil /\ section_no = Nil

---------------------------------------------------------------------------
(* Bounds of the model *)
MaxId   == 3     \* chunk ids are 1..MaxId
MaxList == 3     \* longest ranked list handed to rrf
MaxK    == 3     \* largest output size k handed to rrf
MaxTextLen == 6  \* longest text handed to chunk_text
MaxMaxChars == 4 \* largest max_chars handed to chunk_text
MaxRows == 3     \* most rows in the chunk CSV
MaxMinChars == 3 \* largest MIN_CHARS tried
NumChunks == 3   \* chunks in the corpus the service loads
MaxNormLen == 6  \* most characters in the text nodes of a container
MaxFragments == 3 \* most pieces in a text handed to extract_section_no

(* k_rrf values tried: the degenerate 0 and 1, and the default 60 *)
KRrfDefault == 60
KRrfSet == {0, 1, KRrfDefault}

---------------------------------------------------------------------------
(* Generic helpers *)
Min(a, b) == IF a <= b THEN a ELSE b
Max(a, b) == IF a >= b THEN a ELSE b

Range(s) == {s[i] : i \in DOMAIN s}

Take(s, n) == SubSeq(s, 1, Min(n, Len(s)))

\* sequences over S of length <= n without repetition (a ranked list)
InjSeqs(S, n) ==
    {s \in UNION {[1..m -> S] : m \in 0..n} :
        \A i, j \in DOMAIN s : i # j => s[i] # s[j]}

(* Exact fractions for the float scores *)
Frac(n, d) == [n |-> n, d |-> d]
FracAdd(a, b) == Frac(a.n * b.d + b.n * a.d, a.d * b.d)
FracLess(a, b) == a.n * b.d < b.n * a.d
FracEq(a, b) == a.n * b.d = b.n * a.d

---------------------------------------------------------------------------
(* app.py rrf, lines 110-119 (same code: search_rag.py rrf_fusion,         *)
(* ask_rag.py rrf)                                                         *)

Keys(sc) == {sc[i].key : i \in DOMAIN sc}

\* scores.setdefault(key, {"it": it, "s": 0.0})
setdefault(sc, it) ==
    IF it.id \in Keys(sc) THEN sc
    ELSE Append(sc, [key |-> it.id, it |-> it, s |-> Frac(0, 1)])

\* mutant: the contribution overwrites the accumulated score
accumulate_overwrite(sc, key, rank, krrf) ==
    [j \in DOMAIN sc |->
        IF sc[j].key = key
        THEN [sc[j] EXCEPT !.s = Frac(1, krrf + rank + 1)]
        ELSE sc[j]]

\* scores[key]["s"] += 1.0 / (k_rrf + rank + 1)
accumulate(sc, key, rank, krrf) ==
    [j \in DOMAIN sc |->
        IF sc[j].key = key
        THEN [sc[j] EXCEPT !.s = FracAdd(@, Frac(1, krrf + rank + 1))]
        ELSE sc[j]]

\* def add(lst): for rank, it in enumerate(lst): ...   (i = rank + 1)
RECURSIVE add(_, _, _, _)
add(lst, i, sc, krrf) ==
    IF i > Len(lst) THEN sc
    ELSE add(lst, i + 1,
             accumulate(setdefault(sc, lst[i]), lst[i].id, i - 1, krrf),
             krrf)

\* add(dense); add(sparse)
rrf_scores(d, s, krrf) == add(s, 1, add(d, 1, <<>>, krrf), krrf)

\* mutant: an unstable sort, an equal score goes in front
RECURSIVE insert_desc_unstable(_, _)
insert_desc_unstable(sorted, x) ==
    IF sorted = <<>> THEN <<x>>
    ELSE IF ~FracLess(x.s, Head(sorted).s) THEN <<x>> \o sorted
    ELSE <<Head(sorted)>> \o insert_desc_unstable(Tail(sorted), x)

\* sorted(..., key=s, reverse=True) is stable: x goes after every entry
\* whose score is >= its own
RECURSIVE insert_desc(_, _)
insert_desc(sorted, x) ==
    IF sorted = <<>> THEN <<x>>
    ELSE IF FracLess(Head(sorted).s, x.s) THEN <<x>> \o sorted
    ELSE <<Head(sorted)>> \o insert_desc(Tail(sorted), x)

RECURSIVE sorted_desc(_, _)
sorted_desc(sc, acc) ==
    IF sc = <<>> THEN acc
    ELSE sorted_desc(Tail(sc), insert_desc(acc, Head(sc)))

\* fused = sorted(scores.values(), ...)[:k]; return [v["it"] for v in fused]
rrf_top(sc, kk) == Take(sorted_desc(sc, <<>>), kk)

rrf(d, s, kk, krrf) ==
    LET top == rrf_top(rrf_scores(d, s, krrf), kk)
    IN  [i \in DOMAIN top |-> top[i].it]

---------------------------------------------------------------------------
(* Specification of the fusion merger alone: any two ranked lists, any k,  *)
(* any k_rrf                                                               *)

DenseHit(i)  == [id |-> i, src |-> "dense"]
SparseHit(i) == [id |-> i, src |-> "sparse"]

InitFusion ==
    /\ pc = "rrf"
    /\ dense \in InjSeqs({DenseHit(i) : i \in 1..MaxId}, MaxList)
    /\ sparse \in InjSeqs({SparseHit(i) : i \in 1..MaxId}, MaxList)
    /\ k \in 0..MaxK
    /\ k_rrf \in KRrfSet
    /\ scores = Nil
    /\ fused = Nil
    /\ ChunkIdle
    /\ IngestIdle
    /\ AskIdle
    /\ NormIdle
    /\ SectionIdle

RrfCall ==
    /\ pc = "rrf"
    /\ scores' = rrf_scores(dense, sparse, k_rrf)
    /\ fused' = rrf(dense, sparse, k, k_rrf)
    /\ pc' = "rrf_done"
    /\ UNCHANGED <<dense, sparse, k, k_rrf, chunkVars, ingestVars, askVars,
                   normVars, sectionVars>>

NextFusion == RrfCall

SpecFusion == InitFusion /\ [][NextFusion]_vars

---------------------------------------------------------------------------
(* What the fusion is expected to give, stated from the two input lists    *)

IdsOf(lst) == {lst[i].id : i \in DOMAIN lst}
Pos(lst, id) == CHOOSE i \in DOMAIN lst : lst[i].id = id
\* contribution of the entry at 1-based position i, i.e. 0-based rank i - 1
ContributionAt(i, krrf) == Frac(1, krrf + (i - 1) + 1)
Contribution(i) == ContributionAt(i, k_rrf)
ExpectedScoreAt(id, krrf) ==
    IF id \in IdsOf(dense) /\ id \in IdsOf(sparse)
    THEN FracAdd(ContributionAt(Pos(dense, id), krrf),
                 ContributionAt(Pos(sparse, id), krrf))
    ELSE IF id \in IdsOf(dense) THEN ContributionAt(Pos(dense, id), krrf)
    ELSE ContributionAt(Pos(sparse, id), krrf)
ExpectedScore(id) == ExpectedScoreAt(id, k_rrf)
ScoreOf(id) == (CHOOSE e \in Range(scores) : e.key = id).s
\* accumulation order: the dense list, then the sparse ids not seen before
IsNewSparse(it) == it.id \notin IdsOf(dense)
AccOrder == dense \o SelectSeq(sparse, IsNewSparse)
AccPos(id) == Pos(AccOrder, id)

\* C1: an id in both lists at ranks r1, r2 has accumulated score exactly
\* 1/(k_rrf+r1+1) + 1/(k_rrf+r2+1), strictly greater than either single
\* contribution; an id in only one list has exactly its one contribution
\* 1/(k_rrf+r+1); an id in neither list has no score.
C1_RrfAccumulation ==
    pc = "rrf_done" =>
        \A id \in 1..MaxId :
            LET inD == id \in IdsOf(dense)
                inS == id \in IdsOf(sparse)
            IN  /\ (inD \/ inS) <=> id \in Keys(scores)
                /\ Cardinality({j \in DOMAIN scores : scores[j].key = id}) <= 1
                /\ (inD /\ inS) =>
                      /\ FracEq(ScoreOf(id),
                                FracAdd(Contribution(Pos(dense, id)),
                                        Contribution(Pos(sparse, id))))
                      /\ FracLess(Contribution(Pos(dense, id)), ScoreOf(id))
                      /\ FracLess(Contribution(Pos(sparse, id)), ScoreOf(id))
                /\ (inD /\ ~inS) =>
                      FracEq(ScoreOf(id), Contribution(Pos(dense, id)))
                /\ (~inD /\ inS) =>
                      FracEq(ScoreOf(id), Contribution(Pos(sparse, id)))

\* C1 witness: rrf has run on lists where one id sits in both lists at
\* different ranks and another id sits in the sparse list only
C1_Witness ==
    /\ pc = "rrf_done"
    /\ \E id \in IdsOf(dense) \cap IdsOf(sparse) :
          Pos(dense, id) # Pos(sparse, id)
    /\ IdsOf(sparse) \ IdsOf(dense) # {}
    /\ IdsOf(dense) \ IdsOf(sparse) # {}

\* C2: the list rrf returns has at most k entries (exactly min(k, number
\* of distinct ids)), holds each id at most once, is in descending order of
\* accumulated score, keeps accumulation order among equal scores, leaves
\* out only ids that do not beat any returned one, and each entry is the
\* record of the list in which its id was first seen.
C2_RrfOutput ==
    pc = "rrf_done" =>
        /\ Len(fused) <= k
        /\ Len(fused) = Min(k, Cardinality(IdsOf(dense) \cup IdsOf(sparse)))
        /\ \A i, j \in DOMAIN fused : i < j =>
              /\ fused[i].id # fused[j].id
              /\ ~FracLess(ExpectedScore(fused[i].id), ExpectedScore(fused[j].id))
              /\ FracEq(ExpectedScore(fused[i].id), ExpectedScore(fused[j].id))
                    => AccPos(fused[i].id) < AccPos(fused[j].id)
        /\ \A i \in DOMAIN fused :
              /\ fused[i].id \in IdsOf(dense) \cup IdsOf(sparse)
              /\ fused[i] = AccOrder[AccPos(fused[i].id)]
              /\ fused[i].id \in IdsOf(dense) => fused[i].src = "dense"
              /\ \A id \in (IdsOf(dense) \cup IdsOf(sparse)) \ IdsOf(fused) :
                    /\ ~FracLess(ExpectedScore(fused[i].id), ExpectedScore(id))
                    /\ FracEq(ExpectedScore(fused[i].id), ExpectedScore(id))
                          => AccPos(fused[i].id) < AccPos(id)

\* C2 witness: rrf has returned a list that was cut to k, holds an id that
\* was in both lists, and holds two entries of equal score
C2_Witness ==
    /\ pc = "rrf_done"
    /\ Len(fused) = k
    /\ k < Cardinality(IdsOf(dense) \cup IdsOf(sparse))
    /\ IdsOf(fused) \cap IdsOf(dense) \cap IdsOf(sparse) # {}
    /\ \E i, j \in DOMAIN fused :
          i < j /\ FracEq(ExpectedScore(fused[i].id), ExpectedScore(fused[j].id))

---------------------------------------------------------------------------
(* Strings: sequences of characters                                        *)

SP == " "
NL == "\n"
TAB == "\t"
IsSpace(c) == c \in {SP, NL, TAB}

Strs(Alphabet, n) == UNION {[1..m -> Alphabet] : m \in 0..n}

RECURSIVE lstrip(_)
lstrip(s) == IF s # <<>> /\ IsSpace(Head(s)) THEN lstrip(Tail(s)) ELSE s
RECURSIVE rstrip(_)
rstrip(s) ==
    IF s # <<>> /\ IsSpace(s[Len(s)]) THEN rstrip(SubSeq(s, 1, Len(s) - 1))
    ELSE s
\* str.strip()
strip(s) == rstrip(lstrip(s))

\* dicts are records over the keys that are read; values are strings,
\* None, or Absent for a key the dict does not have
None == <<"None">>           \* Python None / JSON null
Absent == <<"absent">>       \* a key the dict does not have

\* d.get(key, default) for a field value v
get(v, default) == IF v = Absent THEN default ELSE v
\* Python truthiness of a str-or-None, and `a or b`
Truthy(v) == v # None /\ v # <<>>
Or(a, b) == IF Truthy(a) THEN a ELSE b

---------------------------------------------------------------------------
(* acts_scraper.py chunk_text, lines 136-157                               *)

\* first index >= i of s that is not a newline (Len(s) + 1 if none)
RECURSIVE skip_newlines(_, _)
skip_newlines(s, i) ==
    IF i <= Len(s) /\ s[i] = NL THEN skip_newlines(s, i + 1) ELSE i

\* re.split(r"\n{2,}", txt): cut at every maximal run of 2+ newlines
RECURSIVE re_split_blank(_, _, _, _)
re_split_blank(s, i, cur, acc) ==
    IF i > Len(s) THEN Append(acc, cur)
    ELSE IF s[i] = NL /\ i + 1 <= Len(s) /\ s[i + 1] = NL
         THEN re_split_blank(s, skip_newlines(s, i), <<>>, Append(acc, cur))
         ELSE re_split_blank(s, i + 1, Append(cur, s[i]), acc)

\* TextWrapper._split without hyphens: alternating runs of whitespace and
\* of non-whitespace, none empty
RECURSIVE wrap_split(_, _, _)
wrap_split(s, cur, acc) ==
    IF s = <<>> THEN (IF cur = <<>> THEN acc ELSE Append(acc, cur))
    ELSE IF cur = <<>> \/ IsSpace(cur[1]) = IsSpace(Head(s))
         THEN wrap_split(Tail(s), Append(cur, Head(s)), acc)
         ELSE wrap_split(Tail(s), <<Head(s)>>, Append(acc, cur))

\* the inner loop of _wrap_chunks: pop chunks onto the line while they fit
RECURSIVE fill_line(_, _, _)
fill_line(cs, line, width) ==
    IF cs # <<>> /\ Len(line) + Len(Head(cs)) <= width
    THEN fill_line(Tail(cs), line \o Head(cs), width)
    ELSE <<cs, line>>

\* _handle_long_word with break_long_words=False: a chunk longer than the
\* width goes whole on a line of its own
handle_long_word(cs, line, width) ==
    IF line = <<>> THEN <<Tail(cs), Head(cs)>> ELSE <<cs, line>>

\* TextWrapper._wrap_chunks with drop_whitespace=True, no indent, no
\* max_lines; `line` is the joined cur_line
RECURSIVE wrap_chunks(_, _, _)
wrap_chunks(cs, lines, width) ==
    IF cs = <<>> THEN lines
    ELSE
      LET cs1 == IF strip(Head(cs)) = <<>> /\ lines # <<>> THEN Tail(cs) ELSE cs
          f   == fill_line(cs1, <<>>, width)
          h   == IF f[1] # <<>> /\ Len(Head(f[1])) > width
                 THEN handle_long_word(f[1], f[2], width) ELSE f
          \* a trailing whitespace chunk is dropped: the line is whitespace
          \* only exactly when that was its single chunk
          cur == rstrip(h[2])
      IN  wrap_chunks(h[1], IF cur # <<>> THEN Append(lines, cur) ELSE lines,
                      width)

\* wrap(b, width=max_chars, break_long_words=False, replace_whitespace=False)
wrap(b, width) == wrap_chunks(wrap_split(b, <<>>, <<>>), <<>>, width)

IsNonBlank(w) == strip(w) # <<>>

\* mutant: the separator is not counted in the fit test
fits_no_separator(bf, b, mx) == Len(bf) + Len(b) <= mx

\* if len(buf) + len(b) + 2 <= max_chars
fits(bf, b, mx) == Len(bf) + Len(b) + 2 <= mx

\* body of `for b in blocks`, as <<buf, chunks>> after the iteration
chunk_block(bf, cks, b, mx) ==
    IF strip(b) = <<>> THEN <<bf, cks>>
    ELSE IF fits(bf, b, mx)
         THEN <<(IF bf # <<>> THEN bf \o <<NL, NL>> \o b ELSE b), cks>>
    ELSE
      LET cks1 == IF bf # <<>> THEN Append(cks, bf) ELSE cks
      IN  IF Len(b) <= mx THEN <<b, cks1>>
          ELSE <<(<<>>), cks1 \o SelectSeq(wrap(b, mx), IsNonBlank)>>

TextAlphabet == {"a", SP, NL}

InitChunk ==
    /\ pc = "chunk_split"
    /\ txt \in Strs(TextAlphabet, MaxTextLen)
    /\ max_chars \in 1..MaxMaxChars
    /\ blocks = Nil
    /\ buf = Nil
    /\ chunks = Nil
    /\ FusionIdle
    /\ IngestIdle
    /\ AskIdle
    /\ NormIdle
    /\ SectionIdle

\* blocks = re.split(...); chunks, buf = [], ""
ChunkSplit ==
    /\ pc = "chunk_split"
    /\ blocks' = re_split_blank(txt, 1, <<>>, <<>>)
    /\ buf' = <<>>
    /\ chunks' = <<>>
    /\ pc' = "chunk_loop"
    /\ UNCHANGED <<txt, max_chars, fusionVars, ingestVars, askVars,
                   normVars, sectionVars>>

\* one iteration of `for b in blocks`
ChunkBlock ==
    /\ pc = "chunk_loop"
    /\ blocks # <<>>
    /\ LET r == chunk_block(buf, chunks, Head(blocks), max_chars)
       IN  buf' = r[1] /\ chunks' = r[2]
    /\ blocks' = Tail(blocks)
    /\ UNCHANGED <<pc, txt, max_chars, fusionVars, ingestVars, askVars,
                   normVars, sectionVars>>

\* if buf: chunks.append(buf); return chunks
ChunkReturn ==
    /\ pc = "chunk_loop"
    /\ blocks = <<>>
    /\ chunks' = IF buf # <<>> THEN Append(chunks, buf) ELSE chunks
    /\ pc' = "chunk_done"
    /\ UNCHANGED <<txt, max_chars, blocks, buf, fusionVars, ingestVars, askVars,
                   normVars, sectionVars>>

NextChunk == ChunkSplit \/ ChunkBlock \/ ChunkReturn

SpecChunk == InitChunk /\ [][NextChunk]_vars

HasSpace(s) == \E i \in DOMAIN s : IsSpace(s[i])

\* C5: every chunk chunk_text emits is at most max_chars long, unless it
\* is one whitespace-free token longer than max_chars; the buffer never
\* exceeds max_chars.
C5_ChunkSizeBound ==
    pc \in {"chunk_loop", "chunk_done"} =>
        /\ Len(buf) <= max_chars
        /\ \A i \in DOMAIN chunks :
              Len(chunks[i]) <= max_chars \/ ~HasSpace(chunks[i])

\* C5 witness: chunk_text has returned an over-long token as a chunk of its
\* own, next to a chunk within the limit
C5_Witness ==
    /\ pc = "chunk_done"
    /\ max_chars >= 2
    /\ \E i, j \in DOMAIN chunks :
          /\ Len(chunks[i]) > max_chars
          /\ Len(chunks[j]) <= max_chars

---------------------------------------------------------------------------
(* ingestion_helper.py SECTION_PATTERNS and extract_section_no, lines      *)
(* 43-68.  In a text the letter T stands for the word "Section" or         *)
(* "section" and the letter A for the word "Article" or "article".         *)

IsDigit(c) == c \in {"1", "2", "3", "4"}
IsLower(c) == c \in {"s", "x"}                \* [a-z]
IsLetter(c) == IsLower(c) \/ c \in {"S", "T", "A"}   \* [A-Za-z]
IsWordChar(c) == IsDigit(c) \/ IsLetter(c)    \* \w
\* \b in front of the word character at p
WordStartsAt(s, p) == p = 1 \/ ~IsWordChar(s[p - 1])

\* first index >= i of s whose character is not in the set class (Len(s) + 1
\* if none): the end of a greedy run
run_end(s, i, class) ==
    LET stops == {j \in i..Len(s) : s[j] \notin class}
    IN  IF stops = {} THEN Max(i, Len(s) + 1)
        ELSE CHOOSE j \in stops : \A r \in stops : j <= r
skip_spaces(s, i) == run_end(s, i, {c \in Range(s) : IsSpace(c)})
skip_digits(s, i) == run_end(s, i, {c \in Range(s) : IsDigit(c)})
skip_letters(s, i) ==
    run_end(s, i, {c \in Range(s) : IsLetter(c) \/ c = "-"})

\* the index after the group (\d+[A-Za-z\-]*) that starts at the digit at i
numeral_end(s, i) == skip_letters(s, skip_digits(s, i))
numeral(s, i) == SubSeq(s, i, numeral_end(s, i) - 1)

\* "no match" of a pattern at a position, and of re.search
NoMatch == <<"None">>

\* \b[Ss]ection\s+(\d+[A-Za-z\-]*) and \b[Aa]rticle\s+(\d+[A-Za-z\-]*)
\* at position p, for the word kw: the group, or NoMatch
match_word(s, p, kw) ==
    IF /\ s[p] = kw
       /\ WordStartsAt(s, p)
       /\ p + 1 <= Len(s) /\ IsSpace(s[p + 1])
       /\ skip_spaces(s, p + 1) <= Len(s)
       /\ IsDigit(s[skip_spaces(s, p + 1)])
    THEN numeral(s, skip_spaces(s, p + 1))
    ELSE NoMatch
match_section(s, p) == match_word(s, p, "T")
match_article(s, p) == match_word(s, p, "A")

\* \b[Ss]\.\s*(\d+[A-Za-z\-]*) at position p
match_abbrev(s, p) ==
    IF /\ s[p] \in {"s", "S"}
       /\ WordStartsAt(s, p)
       /\ p + 1 <= Len(s) /\ s[p + 1] = "."
       /\ skip_spaces(s, p + 2) <= Len(s)
       /\ IsDigit(s[skip_spaces(s, p + 2)])
    THEN numeral(s, skip_spaces(s, p + 2))
    ELSE NoMatch

\* ^\s*(\d+[A-Za-z\-]*)\.\s with re.MULTILINE at position p
match_line_start(s, p) ==
    LET q == skip_spaces(s, p)
        e == IF q <= Len(s) THEN numeral_end(s, q) ELSE q
    IN  IF /\ p = 1 \/ s[p - 1] = NL
           /\ q <= Len(s) /\ IsDigit(s[q])
           /\ e + 1 <= Len(s) /\ s[e] = "." /\ IsSpace(s[e + 1])
        THEN numeral(s, q)
        ELSE NoMatch

\* re.search: the group of the leftmost match, or NoMatch; groups[p] is
\* what the pattern gives at position p
search(groups) ==
    LET at == {p \in DOMAIN groups : groups[p] # NoMatch}
    IN  IF at = {} THEN NoMatch
        ELSE groups[CHOOSE p \in at : \A r \in at : p <= r]
search_section(s) == search([p \in 1..Len(s) |-> match_section(s, p)])
search_abbrev(s) == search([p \in 1..Len(s) |-> match_abbrev(s, p)])
search_line_start(s) == search([p \in 1..Len(s) |-> match_line_start(s, p)])
search_article(s) == search([p \in 1..Len(s) |-> match_article(s, p)])

\* text[:120]
HeadLen == 120
\* re.search(r"\([a-z]\)", head)
has_list_marker(head) ==
    \E i \in 1..(Len(head) - 2) :
        head[i] = "(" /\ IsLower(head[i + 1]) /\ head[i + 2] = ")"

extract_section_no(t) ==
    IF search_section(t) # NoMatch THEN search_section(t)
    ELSE IF search_abbrev(t) # NoMatch THEN search_abbrev(t)
    ELSE IF search_line_start(t) # NoMatch
         THEN IF has_list_marker(Take(t, HeadLen)) THEN NoMatch
              ELSE search_line_start(t)
    ELSE IF search_article(t) # NoMatch THEN search_article(t)
    ELSE NoMatch

---------------------------------------------------------------------------
(* ingestion_helper.py: clean & sort (22-36), short-chunk merge (70-93),   *)
(* enrich & re-index (95-119), save (123-127)                              *)

NaN == <<"NaN">>           \* an empty or missing CSV cell, as read_csv gives it
Urls == {"u1", "u2"}
\* cell values of the text column: missing, blank, padded, plain, and one
\* that cites a section ("s.1")
RawTexts == {NaN, <<SP>>, <<"a">>, <<SP, "a">>, <<"a", "a">>, <<"s", ".", "1">>}

\* the (source_url, chunk_index) pairs of m rows as the scraper writes them:
\* per document 0..n-1, here in any file order
KeySeqs(m) ==
    {ks \in [1..m -> Urls \X (0..(m - 1))] :
        /\ \A i, j \in 1..m : i # j => ks[i] # ks[j]
        /\ \A i \in 1..m : \A n \in 0..(ks[i][2] - 1) :
              \E j \in 1..m : ks[j] = <<ks[i][1], n>>}

\* the frame read_csv gives for rows with the keys ks and the texts ts
CsvFrame(ks, ts) ==
    [i \in DOMAIN ks |-> [source_url |-> ks[i][1], chunk_index |-> ks[i][2],
                          title |-> <<"T", ks[i][1]>>, text |-> ts[i]]]

\* df["text"].fillna("").astype(str)
fillna(t) == IF t = NaN THEN <<>> ELSE t

\* order of sort_values(["source_url", "chunk_index"])
RowBefore(a, b) ==
    \/ a.source_url = "u1" /\ b.source_url = "u2"
    \/ a.source_url = b.source_url /\ a.chunk_index < b.chunk_index

RECURSIVE insert_row(_, _)
insert_row(sorted, r) ==
    IF sorted = <<>> THEN <<r>>
    ELSE IF RowBefore(r, Head(sorted)) THEN <<r>> \o sorted
    ELSE <<Head(sorted)>> \o insert_row(Tail(sorted), r)

RECURSIVE sort_values(_, _)
sort_values(rows, acc) ==
    IF rows = <<>> THEN acc
    ELSE sort_values(Tail(rows), insert_row(acc, Head(rows)))

\* groupby("source_url", sort=False): keys in order of first appearance
RECURSIVE group_keys(_, _)
group_keys(rows, acc) ==
    IF rows = <<>> THEN acc
    ELSE group_keys(Tail(rows),
                    IF \E i \in DOMAIN acc : acc[i] = Head(rows).source_url
                    THEN acc ELSE Append(acc, Head(rows).source_url))

group_rows(rows, url) ==
    LET ofUrl(r) == r.source_url = url IN SelectSeq(rows, ofUrl)

\* mutant: the merge stops one character early
needs_more_off_by_one(acc_text, mn) == Len(acc_text) + 1 < mn

\* len(acc_text) < MIN_CHARS
needs_more(acc_text, mn) == Len(acc_text) < mn

\* the inner while: <<acc_text, j>> when it ends
RECURSIVE merge_forward(_, _, _, _)
merge_forward(rows, acc_text, j, mn) ==
    IF needs_more(acc_text, mn) /\ j <= Len(rows)
    THEN merge_forward(rows,
                       strip(acc_text \o <<NL, NL>> \o strip(rows[j].text)),
                       j + 1, mn)
    ELSE <<acc_text, j>>

\* the outer while over the rows of one document
RECURSIVE merge_doc(_, _, _, _)
merge_doc(rows, i, out, mn) ==
    IF i > Len(rows) THEN out
    ELSE
      LET base == rows[i]
          r    == merge_forward(rows, strip(base.text), i + 1, mn)
      IN  merge_doc(rows, r[2],
                    Append(out, [title |-> base.title,
                                 source_url |-> base.source_url,
                                 text |-> r[1]]),
                    mn)

\* for url, g in df.groupby(...): merge the rows of g
RECURSIVE merge_all(_, _, _, _)
merge_all(rows, keys, out, mn) ==
    IF keys = <<>> THEN out
    ELSE merge_all(rows, Tail(keys),
                   merge_doc(group_rows(rows, Head(keys)), 1, out, mn), mn)

\* sha1(url): distinct urls give distinct digests
sha1(u) == <<"sha1", u>>

\* mutant: the index is not restarted per document
enrich_row_global(row, new_idx, before) ==
    [text |-> row.text,
     metadata |-> [title |-> row.title, url |-> row.source_url,
                   chunk_index |-> new_idx + before,
                   doc_id |-> sha1(row.source_url),
                   chunk_id |-> <<sha1(row.source_url), new_idx + before>>,
                   law_title |-> Absent, section_no |-> Absent],
     section_no |-> extract_section_no(row.text),
     char_len |-> Len(row.text)]

\* the record of one merged row; `before` is the number of records already
\* written for other documents.  md has no law_title and no section_no key;
\* the section number is a field of the record, next to metadata.
enrich_row(row, new_idx, before) ==
    [text |-> row.text,
     metadata |-> [title |-> row.title, url |-> row.source_url,
                   chunk_index |-> new_idx,
                   doc_id |-> sha1(row.source_url),
                   chunk_id |-> <<sha1(row.source_url), new_idx>>,
                   law_title |-> Absent, section_no |-> Absent],
     section_no |-> extract_section_no(row.text),
     char_len |-> Len(row.text)]

\* for new_idx, row in enumerate(g...): out_records.append(...)
RECURSIVE enrich_all(_, _, _)
enrich_all(rows, keys, out) ==
    IF keys = <<>> THEN out
    ELSE
      LET g == group_rows(rows, Head(keys))
      IN  enrich_all(rows, Tail(keys),
                     out \o [n \in DOMAIN g |-> enrich_row(g[n], n - 1, Len(out))])

InitIngest ==
    /\ pc = "ing_load"
    /\ \E m \in 0..MaxRows : \E ks \in KeySeqs(m) : \E ts \in [1..m -> RawTexts] :
          df = CsvFrame(ks, ts)
    /\ min_chars \in 0..MaxMinChars
    /\ merged_rows = Nil
    /\ out_records = Nil
    /\ jsonl = Nil
    /\ FusionIdle
    /\ ChunkIdle
    /\ AskIdle
    /\ NormIdle
    /\ SectionIdle

\* fillna / astype / sort_values / reset_index
IngestCleanSort ==
    /\ pc = "ing_load"
    /\ df' = sort_values([i \in DOMAIN df |->
                              [df[i] EXCEPT !.text = fillna(@)]], <<>>)
    /\ pc' = "ing_merge"
    /\ UNCHANGED <<min_chars, merged_rows, out_records, jsonl,
                   fusionVars, chunkVars, askVars,
                   normVars, sectionVars>>

\* the short-chunk merge loop over every document
IngestMerge ==
    /\ pc = "ing_merge"
    /\ merged_rows' = merge_all(df, group_keys(df, <<>>), <<>>, min_chars)
    /\ pc' = "ing_enrich"
    /\ UNCHANGED <<df, min_chars, out_records, jsonl, fusionVars, chunkVars, askVars,
                   normVars, sectionVars>>

\* enrich metadata and re-index per document
IngestEnrich ==
    /\ pc = "ing_enrich"
    /\ out_records' = enrich_all(merged_rows, group_keys(merged_rows, <<>>), <<>>)
    /\ pc' = "ing_save"
    /\ UNCHANGED <<df, min_chars, merged_rows, jsonl, fusionVars, chunkVars, askVars,
                   normVars, sectionVars>>

\* OUT_JSONL: one line {"text", "metadata"} per record
IngestSave ==
    /\ pc = "ing_save"
    /\ jsonl' = [i \in DOMAIN out_records |->
                    [keys |-> {"text", "metadata"},
                     text |-> out_records[i].text,
                     metadata |-> out_records[i].metadata]]
    /\ pc' = "ing_done"
    /\ UNCHANGED <<df, min_chars, merged_rows, out_records,
                   fusionVars, chunkVars, askVars,
                   normVars, sectionVars>>

\* the text a merge of rows a..b of one document is expected to carry:
\* the trimmed texts joined by a blank line, trimmed after each join
RECURSIVE JoinedText(_, _, _)
JoinedText(rows, a, b) ==
    IF b = a THEN strip(rows[a].text)
    ELSE strip(JoinedText(rows, a, b - 1) \o <<NL, NL>> \o strip(rows[b].text))

Saved == pc \in {"ing_done", "corpus_loaded", "corpus_cited"}
Merged == pc \in {"ing_enrich", "ing_save"} \/ Saved

\* C6: per document, the merged chunks consume the input chunks in order,
\* each input chunk in exactly one merged chunk (the merged chunks are the
\* joins of consecutive runs that cover the document), so there are no more
\* merged chunks than input chunks; every merged chunk but the last of its
\* document has trimmed length >= min_chars.
C6_MergeMinimum ==
    Merged =>
        /\ Len(merged_rows) <= Len(df)
        /\ \A u \in Urls :
              LET inp == group_rows(df, u)
                  mr  == group_rows(merged_rows, u)
                  n   == Len(inp)
                  m   == Len(mr)
              IN  /\ m <= n
                  /\ (n > 0) => (m > 0)
                  /\ \A i \in 1..(m - 1) : Len(strip(mr[i].text)) >= min_chars
                  /\ \E e \in [1..m -> 1..n] :
                        /\ \A i \in 1..(m - 1) : e[i] < e[i + 1]
                        /\ (m > 0) => e[m] = n
                        /\ \A i \in 1..m :
                              mr[i].text =
                                JoinedText(inp, IF i = 1 THEN 1 ELSE e[i - 1] + 1, e[i])

\* C6 witness: a document of three chunks was merged into two, the first
\* merged chunk made of two input chunks and long enough, the last one
\* shorter than min_chars
C6_Witness ==
    /\ Merged
    /\ \E u \in Urls :
          LET inp == group_rows(df, u)
              mr  == group_rows(merged_rows, u)
          IN  /\ Len(inp) = 3 /\ Len(mr) = 2
              /\ mr[1].text = JoinedText(inp, 1, 2)
              /\ Len(mr[1].text) >= min_chars
              /\ Len(strip(inp[1].text)) < min_chars
              /\ Len(mr[2].text) < min_chars

\* C7 (as claimed): every record written has non-empty text after trimming,
\* the chunk_index values of each document are exactly 0..n-1, and no two
\* records share a chunk_id.
C7_ChunkInvariant ==
    Saved =>
        /\ \A i \in DOMAIN jsonl : strip(jsonl[i].text) # <<>>
        /\ \A u \in Urls :
              LET ofDoc == {i \in DOMAIN jsonl : jsonl[i].metadata.url = u}
              IN  {jsonl[i].metadata.chunk_index : i \in ofDoc}
                     = 0..(Cardinality(ofDoc) - 1)
        /\ \A i, j \in DOMAIN jsonl :
              i # j => jsonl[i].metadata.chunk_id # jsonl[j].metadata.chunk_id

\* the two parts of C7 the script does keep: contiguous chunk_index per
\* document and distinct chunk_id
ReindexedContiguous ==
    Saved =>
        /\ \A u \in Urls :
              LET ofDoc == {i \in DOMAIN jsonl : jsonl[i].metadata.url = u}
              IN  {jsonl[i].metadata.chunk_index : i \in ofDoc}
                     = 0..(Cardinality(ofDoc) - 1)
        /\ \A i, j \in DOMAIN jsonl :
              i # j => jsonl[i].metadata.chunk_id # jsonl[j].metadata.chunk_id

---------------------------------------------------------------------------
(* app.py, the query service: load_jsonl (67-80), build_bm25 (82-88),      *)
(* vector_topk (90-101), bm25_topk (103-108), build_context (121-131),     *)
(* need_clarify (141-155), startup (157-167), ask (173-251);               *)
(* index_rag.py main (12-33) fills the vector collection                   *)

\* str.lower() on the letters of the model
LowerChar(c) == IF c = "L" THEN "l" ELSE IF c = "C" THEN "c" ELSE c
lower(str) == [i \in DOMAIN str |-> LowerChar(str[i])]
\* `sub in str`
Contains(sub, str) ==
    \E i \in 1..(Len(str) - Len(sub) + 1) : SubSeq(str, i, i + Len(sub) - 1) = sub

\* the `hints` of need_clarify, in their order: L stands for "Canada Labour
\* Code", C for "Competition Act"
hints == << <<"L">>, <<"C">> >>

TOPK_DENSE == 5
TOPK_SPARSE == 5
TOPK_FINAL == 3

\* mutant: the sparse record carries no title of its own
load_record_untitled(line) ==
    [id |-> get(line.metadata.chunk_id, None),
     text |-> line.text,
     meta |-> line.metadata,
     title |-> None,
     section_no |-> get(line.metadata.section_no, None)]

\* one record of load_jsonl
load_record(line) ==
    [id |-> get(line.metadata.chunk_id, None),
     text |-> line.text,
     meta |-> line.metadata,
     title |-> Or(get(line.metadata.title, None),
                  get(line.metadata.law_title, None)),
     section_no |-> get(line.metadata.section_no, None)]

\* obj["metadata"] or obj["text"] raises KeyError: the line lacks the key
\* (line.keys are the keys the JSON object of the line has)
is_malformed(line) == ~({"text", "metadata"} \subseteq line.keys)
\* the loop over the lines has no handler: the first such line ends it
raises_KeyError(file) == \E i \in DOMAIN file : is_malformed(file[i])

\* load_jsonl on a file it reads to the end
load_jsonl(file) == [i \in DOMAIN file |-> load_record(file[i])]

\* index_rag.py: ids, documents and metadatas upserted into the collection
index_jsonl(file) ==
    [i \in DOMAIN file |->
        [id |-> get(file[i].metadata.chunk_id, None),
         text |-> file[i].text,
         meta |-> file[i].metadata,
         title |-> Absent, section_no |-> Absent]]

\* mutant: the filter test is inverted
in_pool_inverted(r, title_filter) ==
    ~Truthy(title_filter) \/ ~Contains(lower(title_filter), lower(Or(r.title, <<>>)))

\* not title_filter or (title_filter.lower() in (r["title"] or "").lower())
in_pool(r, title_filter) ==
    ~Truthy(title_filter) \/ Contains(lower(title_filter), lower(Or(r.title, <<>>)))

\* build_bm25: <<bm, pool>>
build_bm25(records, title_filter) ==
    LET keep(r) == in_pool(r, title_filter)
        pool == SelectSeq(records, keep)
    IN  IF pool = <<>> THEN <<None, <<>>>> ELSE <<(<<"BM25Okapi">>), pool>>

\* where = {"title": {"$eq": title_filter}} if title_filter else None
where_matches(c, title_filter) ==
    ~Truthy(title_filter) \/ get(c.meta.title, None) = title_filter

\* what a top-n query may return: any ranking of n of the candidates, all of
\* them when there are fewer (the scores are the collaborator's)
Rankings(cands, n) ==
    {r \in [1..Min(n, Cardinality(cands)) -> cands] :
        \A i, j \in DOMAIN r : i # j => r[i] # r[j]}

\* vector_topk: the hits the collection may return
vector_topk(col, kk, title_filter) ==
    Rankings({c \in Range(col) : where_matches(c, title_filter)}, kk)

\* bm25_topk: the lists it may return
bm25_topk(bm25, pool, kk) ==
    IF pool = <<>> \/ bm25 = None THEN {<<>>}
    ELSE {[j \in DOMAIN r |-> pool[r[j]]] : r \in Rankings(DOMAIN pool, kk)}

\* mutant: the loop never breaks at k_final
RECURSIVE normalize_unbounded(_, _, _)
normalize_unbounded(fs, out, kfinal) ==
    IF fs = <<>> THEN out
    ELSE IF \E i \in DOMAIN out : out[i].id = Head(fs).id
         THEN normalize_unbounded(Tail(fs), out, kfinal)
         ELSE normalize_unbounded(Tail(fs), Append(out, Head(fs)), kfinal)

\* lines 200-210 of ask: drop repeated ids, keep the first k_final
RECURSIVE normalize(_, _, _)
normalize(fs, out, kfinal) ==
    IF fs = <<>> \/ Len(out) >= kfinal THEN out
    ELSE IF \E i \in DOMAIN out : out[i].id = Head(fs).id
         THEN normalize(Tail(fs), out, kfinal)
         ELSE normalize(Tail(fs), Append(out, Head(fs)), kfinal)

\* build_context: one block per chunk, [i] (title | section) url + text
build_context(cs) ==
    [i \in DOMAIN cs |->
        [index |-> i,
         title |-> Or(get(cs[i].meta.title, None), get(cs[i].title, None)),
         section |-> Or(get(cs[i].meta.section_no, None),
                        get(cs[i].section_no, None)),
         id |-> cs[i].id]]

\* mentioned = [h for h in hints if h.lower() in user_q.lower()]
mentioned_in(user_q) ==
    LET named(h) == Contains(lower(h), lower(user_q))
    IN  SelectSeq(hints, named)

\* (...).lower() in [m.lower() for m in mentioned]
title_hit(t, mentioned) ==
    \E i \in DOMAIN mentioned : lower(t) = lower(mentioned[i])

\* have = any(... for c in ctx_chunks): "True", "False", or "raise" when a
\* chunk evaluated before any hit has None for its title (None.lower())
RECURSIVE any_have(_, _)
any_have(cs, mentioned) ==
    IF cs = <<>> THEN "False"
    ELSE
      LET t == Or(get(Head(cs).meta.title, <<>>), get(Head(cs).title, <<>>))
      IN  IF t = None THEN "raise"
          ELSE IF title_hit(t, mentioned) THEN "True"
          ELSE any_have(Tail(cs), mentioned)

\* the distinct non-empty titles of the chunks
ctx_titles(cs) ==
    {t \in {Or(Or(get(cs[i].meta.title, None), get(cs[i].title, None)), <<>>) :
               i \in DOMAIN cs} : Truthy(t)}

\* what need_clarify gives: a message is told by which of the two texts it
\* is and the act names written in it; NoMsg is None; Raised is the
\* AttributeError of None.lower()
NoMsg == [text |-> "None", acts |-> <<>>]
Raised == [text |-> "raise", acts |-> <<>>]
IsMsg(m) == m # NoMsg /\ m # Raised

\* mutant: the message names the last mentioned act
named_act_last(mentioned) == mentioned[Len(mentioned)]

\* mentioned[0]
named_act(mentioned) == mentioned[1]

\* mutant: two distinct titles already count as fan-out
fan_out_two(titles) == Cardinality(titles) >= 2

\* len([t for t in titles if t]) >= 3
fan_out(titles) == Cardinality(titles) >= 3

need_clarify(user_q, cs) ==
    LET mentioned == mentioned_in(user_q)
        have == IF mentioned # <<>> THEN any_have(cs, mentioned) ELSE "True"
    IN  IF have = "raise" THEN Raised
        ELSE IF have = "False"
             THEN [text |-> "mentions", acts |-> <<named_act(mentioned)>>]
        ELSE IF fan_out(ctx_titles(cs))
             THEN [text |-> "multiple", acts |-> << <<"L">>, <<"C">> >>]
        ELSE NoMsg

\* SourceItem(id=..., section_no=it["meta"].get("section_no"),
\*            title=it["meta"].get("title"))
sources_of(cs) ==
    [i \in DOMAIN cs |->
        [id |-> cs[i].id,
         section_no |-> get(cs[i].meta.section_no, None),
         title |-> get(cs[i].meta.title, None)]]

\* raise HTTPException(code), or an exception that escapes the handler (500)
HTTPException(code) ==
    [status |-> code, answer |-> "None", sources |-> <<>>,
     clarify_needed |-> FALSE, clarify_message |-> NoMsg]

\* mutant: the clarification response drops the sources
clarify_response_bare(msg, cs) ==
    [status |-> 200, answer |-> "None", sources |-> <<>>,
     clarify_needed |-> TRUE, clarify_message |-> msg]

\* AskResponse(answer=None, sources=[...], clarify_needed=True, ...)
clarify_response(msg, cs) ==
    [status |-> 200, answer |-> "None", sources |-> sources_of(cs),
     clarify_needed |-> TRUE, clarify_message |-> msg]

\* AskResponse(answer=answer, sources=[...], clarify_needed=False)
answer_response(cs) ==
    [status |-> 200, answer |-> "text", sources |-> sources_of(cs),
     clarify_needed |-> FALSE, clarify_message |-> NoMsg]

\* mutant: the query is tested without strip()
query_is_empty_unstripped(q) == q = <<>>

\* not req.query.strip()
query_is_empty(q) == strip(q) = <<>>

\* `value or default` for an optional count (0: not given)
or_default(v, default) == IF v = 0 THEN default ELSE v

\* the document titles of the corpus: the two known acts, two other acts,
\* and a document without title
DocTitles == << <<"L">>, <<"C">>, <<"x">>, <<"y">>, None >>
\* Chunk ids are interchangeable and either lookup may rank the chunks in
\* any order, so a corpus is told by how many chunks carry each title: one
\* corpus file per such count, its lines grouped by title; the metadata
\* has the keys ingestion_helper.py writes, so no section_no.  The two other
\* acts are interchangeable too: x has at least as many chunks as y.
TitleChoices ==
    {ts \in [1..NumChunks -> DOMAIN DocTitles] :
        /\ \A i \in 1..(NumChunks - 1) : ts[i] <= ts[i + 1]
        /\ LET n(t) == Cardinality({i \in DOMAIN ts : DocTitles[ts[i]] = t})
           IN  n(<<"x">>) >= n(<<"y">>)}
Corpora ==
    {[i \in 1..NumChunks |->
        [keys |-> {"text", "metadata"},
         text |-> <<"t">>,
         metadata |-> [chunk_id |-> <<"id", i>>, title |-> DocTitles[ts[i]],
                       law_title |-> Absent, section_no |-> Absent]]] :
        ts \in TitleChoices}
\* a corpus file one line of which lacks "metadata", or lacks "text"
MalformedCorpora ==
    {[c EXCEPT ![i].keys = {only}] :
        c \in Corpora, i \in 1..NumChunks, only \in {"text", "metadata"}}

\* empty, blank, no act, act L in lower case, acts C and L
Queries == {<<>>, <<SP>>, <<"x">>, <<"l">>, <<"C", SP, "L">>}
\* no filter, the title C as written, in lower case, a title of no document
Filters == {None, <<"C">>, <<"c">>, <<"z">>}
KLookupChoices == {0, 1}
KFinalChoices == {0, 2}

InitAsk ==
    /\ pc = "index"
    /\ jsonl \in Corpora \cup MalformedCorpora
    /\ df = Nil /\ min_chars = 0 /\ merged_rows = Nil /\ out_records = Nil
    /\ AskIdle
    /\ FusionIdle
    /\ ChunkIdle
    /\ NormIdle
    /\ SectionIdle

\* index_rag.py main: upsert every line of the corpus file; a KeyError in
\* load_jsonl ends the script before the upsert
Index ==
    /\ pc = "index"
    /\ COL' = IF raises_KeyError(jsonl) THEN COL ELSE index_jsonl(jsonl)
    /\ pc' = "startup"
    /\ UNCHANGED <<RECORDS, BM25_DEFAULT, req, norm, clarify_msg, ctx, response,
                   calls, fusionVars, chunkVars, ingestVars,
                   normVars, sectionVars>>

\* startup(): load the corpus, build the default lexical index; a KeyError
\* in load_jsonl escapes startup and the service does not come up
Startup ==
    /\ pc = "startup"
    /\ IF raises_KeyError(jsonl)
       THEN /\ RECORDS' = RECORDS
            /\ BM25_DEFAULT' = BM25_DEFAULT
            /\ pc' = "startup_failed"
       ELSE /\ RECORDS' = load_jsonl(jsonl)
            /\ BM25_DEFAULT' = build_bm25(load_jsonl(jsonl), None)
            /\ pc' = "idle"
    /\ UNCHANGED <<COL, req, norm, clarify_msg, ctx, response, calls,
                   fusionVars, chunkVars, ingestVars,
                   normVars, sectionVars>>

\* a POST /ask arrives
AskReceive ==
    /\ pc = "idle"
    /\ \E q \in Queries, f \in Filters, kd \in KLookupChoices,
          ks \in KLookupChoices, kf \in KFinalChoices :
          req' = [query |-> q, title_filter |-> f, k_dense |-> kd,
                  k_sparse |-> ks, k_final |-> kf]
    /\ calls' = <<>>
    /\ pc' = "ask_validate"
    /\ UNCHANGED <<COL, RECORDS, BM25_DEFAULT, norm, clarify_msg, ctx, response,
                   fusionVars, chunkVars, ingestVars,
                   normVars, sectionVars>>

\* if not req.query.strip(): raise HTTPException(400, ...)
AskValidate ==
    /\ pc = "ask_validate"
    /\ IF query_is_empty(req.query)
       THEN response' = HTTPException(400) /\ pc' = "ask_done"
       ELSE response' = response /\ pc' = "ask_dense"
    /\ UNCHANGED <<COL, RECORDS, BM25_DEFAULT, req, norm, clarify_msg, ctx,
                   calls, fusionVars, chunkVars, ingestVars,
                   normVars, sectionVars>>

\* dense = vector_topk(COL, EMB, qx, k=k_dense, title_filter=...)
AskDense ==
    /\ pc = "ask_dense"
    /\ dense' \in vector_topk(COL, or_default(req.k_dense, TOPK_DENSE),
                              req.title_filter)
    /\ calls' = Append(calls, "semantic")
    /\ pc' = "ask_sparse"
    /\ UNCHANGED <<COL, RECORDS, BM25_DEFAULT, req, norm, clarify_msg, ctx,
                   response, sparse, k, k_rrf, scores, fused, chunkVars,
                   ingestVars,
                   normVars, sectionVars>>

\* the title-filtered or the default lexical index, then bm25_topk
AskSparse ==
    /\ pc = "ask_sparse"
    /\ LET bp == IF Truthy(req.title_filter)
                 THEN build_bm25(RECORDS, req.title_filter)
                 ELSE BM25_DEFAULT
       IN  sparse' \in bm25_topk(bp[1], bp[2],
                                 or_default(req.k_sparse, TOPK_SPARSE))
    /\ calls' = Append(calls, "lexical")
    /\ pc' = "ask_fuse"
    /\ UNCHANGED <<COL, RECORDS, BM25_DEFAULT, req, norm, clarify_msg, ctx,
                   response, dense, k, k_rrf, scores, fused, chunkVars,
                   ingestVars,
                   normVars, sectionVars>>

\* fused = rrf(dense, sparse, k=k_final*2); 404 when empty; else the
\* normalisation loop
AskFuse ==
    /\ pc = "ask_fuse"
    /\ LET kfinal == or_default(req.k_final, TOPK_FINAL)
           f == rrf(dense, sparse, kfinal * 2, KRrfDefault)
       IN  /\ fused' = f
           /\ IF f = <<>>
              THEN /\ response' = HTTPException(404)
                   /\ norm' = norm
                   /\ pc' = "ask_done"
              ELSE /\ response' = response
                   /\ norm' = normalize(f, <<>>, kfinal)
                   /\ pc' = "ask_gate"
    /\ UNCHANGED <<COL, RECORDS, BM25_DEFAULT, req, clarify_msg, ctx, calls,
                   dense, sparse, k, k_rrf, scores, chunkVars, ingestVars,
                   normVars, sectionVars>>

\* clarify_msg = need_clarify(req.query, norm); return early on a message
AskGate ==
    /\ pc = "ask_gate"
    /\ LET msg == need_clarify(req.query, norm)
       IN  /\ clarify_msg' = msg
           /\ IF msg = Raised
              THEN response' = HTTPException(500) /\ pc' = "ask_done"
              ELSE IF msg # NoMsg
              THEN response' = clarify_response(msg, norm) /\ pc' = "ask_done"
              ELSE response' = response /\ pc' = "ask_generate"
    /\ calls' = Append(calls, "need_clarify")
    /\ UNCHANGED <<COL, RECORDS, BM25_DEFAULT, req, norm, ctx, fusionVars,
                   chunkVars, ingestVars,
                   normVars, sectionVars>>

\* ctx = build_context(norm); the chat completion; the answer response.
\* The generation service may fail, which escapes the handler.
AskGenerate ==
    /\ pc = "ask_generate"
    /\ ctx' = build_context(norm)
    /\ calls' = Append(calls, "generation")
    /\ \E ok \in BOOLEAN :
          response' = IF ok THEN answer_response(norm) ELSE HTTPException(500)
    /\ pc' = "ask_done"
    /\ UNCHANGED <<COL, RECORDS, BM25_DEFAULT, req, norm, clarify_msg,
                   fusionVars, chunkVars, ingestVars,
                   normVars, sectionVars>>

NextAsk ==
    \/ Index \/ Startup \/ AskReceive \/ AskValidate \/ AskDense \/ AskSparse
    \/ AskFuse \/ AskGate \/ AskGenerate

SpecAsk == InitAsk /\ [][NextAsk]_vars


---------------------------------------------------------------------------
(* Properties of the /ask flow                                             *)

InRequest ==
    pc \in {"ask_validate", "ask_dense", "ask_sparse", "ask_fuse", "ask_gate",
            "ask_generate", "ask_done"}
Called(c) == \E i \in DOMAIN calls : calls[i] = c
KFinal == IF req.k_final = 0 THEN TOPK_FINAL ELSE req.k_final
\* the document title a result carries: its metadata's, else its own
ChunkTitle(c) == Or(get(c.meta.title, None), get(c.title, None))
SameAct(t, h) == t # None /\ lower(t) = lower(h)
Names(q, h) == Contains(lower(h), lower(q))

\* C3: a generation call is always preceded by the evaluation of the gate,
\* which then gave no message; when the gate gives a message the request is
\* over at once, with clarify_needed=true, no answer, one source per final
\* result in order, and no generation call.
C3_GateBeforeGeneration ==
    InRequest =>
        /\ \A i \in DOMAIN calls :
              calls[i] = "generation" =>
                  /\ \E j \in 1..(i - 1) : calls[j] = "need_clarify"
                  /\ clarify_msg = NoMsg
        /\ Called("need_clarify") =>
              /\ Len(norm) <= KFinal
              /\ norm = Take(fused, KFinal)
        /\ (Called("need_clarify") /\ IsMsg(clarify_msg)) =>
              /\ pc = "ask_done"
              /\ response.status = 200
              /\ response.clarify_needed
              /\ response.clarify_message = clarify_msg
              /\ response.answer = "None"
              /\ Len(response.sources) = Len(norm)
              /\ \A i \in DOMAIN norm : response.sources[i].id = norm[i].id
              /\ response.sources # <<>>
              /\ ~Called("generation")

\* C3 witness: the gate gave a message on two or more results and the
\* request ended with the clarification response
C3_Witness ==
    /\ pc = "ask_done"
    /\ IsMsg(clarify_msg)
    /\ Len(norm) >= 2
    /\ response.clarify_needed

IsBlank(q) == \A i \in DOMAIN q : q[i] \in {SP, NL}

\* C8: a request whose query is empty or whitespace-only makes no call to
\* either index or to the generation service, and ends with HTTP 400.
C8_EmptyQuery ==
    (InRequest /\ IsBlank(req.query)) =>
        /\ calls = <<>>
        /\ pc \in {"ask_validate", "ask_done"}
        /\ pc = "ask_done" => response.status = 400

\* C8 witness: a whitespace-only query was answered with 400
C8_Witness ==
    /\ pc = "ask_done"
    /\ req.query = <<SP>>
    /\ response.status = 400

\* the filter matches no title of the corpus file, whether by the lexical
\* test (contained, ignoring case) or by the semantic one (equal)
MatchesNoTitle(f) ==
    \A i \in DOMAIN jsonl :
        LET t == Or(get(jsonl[i].metadata.title, None), <<>>)
        IN  ~Contains(lower(f), lower(t)) /\ t # f

\* C9: with a title filter that matches no document title, the lexical
\* lookup and the dense lookup return empty lists, fusion returns an empty
\* list, and the request ends with HTTP 404 after the two lookups, without
\* the gate and without generation.
C9_NoResults ==
    (InRequest /\ ~IsBlank(req.query) /\ Truthy(req.title_filter)
        /\ MatchesNoTitle(req.title_filter)) =>
        /\ pc \in {"ask_validate", "ask_dense", "ask_sparse", "ask_fuse",
                   "ask_done"}
        /\ pc \in {"ask_sparse", "ask_fuse", "ask_done"} => dense = <<>>
        /\ pc \in {"ask_fuse", "ask_done"} => sparse = <<>>
        /\ pc = "ask_done" =>
              /\ fused = <<>>
              /\ response.status = 404
              /\ calls = <<"semantic", "lexical">>

\* C9 witness: a request filtered on a title of no document ended with 404
C9_Witness ==
    /\ pc = "ask_done"
    /\ req.title_filter = <<"z">>
    /\ response.status = 404
    /\ calls = <<"semantic", "lexical">>

\* C10: once generation is called, the final list holds exactly
\* min(k_final, number of distinct retrieved ids) chunks of distinct ids in
\* descending fused score, none left out beats one kept; the context has
\* one block per chunk numbered 1..n in that order; the sources of the
\* answer are the same ids in the same order, at most k_final.
C10_ContextAndSources ==
    (InRequest /\ Called("generation")) =>
        LET all == IdsOf(dense) \cup IdsOf(sparse)
        IN  /\ Len(norm) = Min(KFinal, Cardinality(all))
            /\ \A i, j \in DOMAIN norm : i < j =>
                  /\ norm[i].id # norm[j].id
                  /\ ~FracLess(ExpectedScoreAt(norm[i].id, KRrfDefault),
                               ExpectedScoreAt(norm[j].id, KRrfDefault))
            /\ \A i \in DOMAIN norm : \A id \in all \ IdsOf(norm) :
                  ~FracLess(ExpectedScoreAt(norm[i].id, KRrfDefault),
                            ExpectedScoreAt(id, KRrfDefault))
            /\ Len(ctx) = Len(norm)
            /\ \A i \in DOMAIN ctx : ctx[i].index = i /\ ctx[i].id = norm[i].id
            /\ response.status = 200 =>
                  /\ Len(response.sources) = Len(norm)
                  /\ Len(response.sources) <= KFinal
                  /\ \A i \in DOMAIN norm : response.sources[i].id = norm[i].id
                  /\ response.answer = "text"
                  /\ ~response.clarify_needed

\* C10 witness: an answer was returned on k_final = 2 results cut from
\* three retrieved ids, one of them found by both lookups
C10_Witness ==
    /\ pc = "ask_done"
    /\ Called("generation")
    /\ response.status = 200
    /\ Len(norm) = 2
    /\ Cardinality(IdsOf(dense) \cup IdsOf(sparse)) = 3
    /\ IdsOf(norm) \cap IdsOf(dense) \cap IdsOf(sparse) # {}
    /\ Len(ctx) = 2

\* C12 (as claimed): under a title filter the two lookups are restricted to
\* the same chunks: a chunk of the corpus is in the pool of the lexical
\* lookup exactly when the where clause of the semantic lookup admits it,
\* and every fused result has a title that contains the filter.
C12_FilterConsistency ==
    (InRequest /\ Called("lexical") /\ Truthy(req.title_filter)) =>
        /\ \A i \in DOMAIN RECORDS :
              in_pool(RECORDS[i], req.title_filter)
                  <=> where_matches(COL[i], req.title_filter)
        /\ \A i \in DOMAIN fused :
              Contains(lower(req.title_filter),
                       lower(Or(ChunkTitle(fused[i]), <<>>)))

\* what the two tests do give: a chunk the semantic lookup admits is in the
\* lexical pool, and every fused result has a title that contains the
\* filter, ignoring case
FilterSemanticWithinLexical ==
    (InRequest /\ Called("lexical") /\ Truthy(req.title_filter)) =>
        /\ \A i \in DOMAIN RECORDS :
              where_matches(COL[i], req.title_filter)
                  => in_pool(RECORDS[i], req.title_filter)
        /\ \A i \in DOMAIN fused :
              Contains(lower(req.title_filter),
                       lower(Or(ChunkTitle(fused[i]), <<>>)))

\* the distinct non-empty document titles of the final results
ResultTitles == {t \in {ChunkTitle(norm[i]) : i \in DOMAIN norm} : Truthy(t)}
AllTitled == \A i \in DOMAIN norm : ChunkTitle(norm[i]) # None
\* the named-act trigger: the query names a known act and no final result
\* is from an act the query names
NamedActFires ==
    /\ \E n \in DOMAIN hints : Names(req.query, hints[n])
    /\ \A n \in DOMAIN hints :
          Names(req.query, hints[n]) =>
              \A i \in DOMAIN norm : ~SameAct(ChunkTitle(norm[i]), hints[n])

\* C13 (as claimed, for results that all carry a title): when the final
\* results span three or more distinct non-empty titles the gate gives a
\* message, and every act title written in the message is the title of a
\* final result; when they span fewer than three and the named-act trigger
\* does not fire, the gate gives no message and the request goes on to
\* context assembly.
C13_TopicalFanOut ==
    (InRequest /\ Called("need_clarify") /\ AllTitled) =>
        /\ Cardinality(ResultTitles) >= 3 =>
              /\ IsMsg(clarify_msg)
              /\ \A a \in Range(clarify_msg.acts) : a \in ResultTitles
        /\ (Cardinality(ResultTitles) < 3 /\ ~NamedActFires) =>
              /\ clarify_msg = NoMsg
              /\ pc \in {"ask_generate", "ask_done"}
              /\ pc = "ask_done" => Called("generation") /\ ctx # Nil

\* what the gate does give: the same, without the membership of the act
\* titles of the message in the results
FanOutFires ==
    (InRequest /\ Called("need_clarify") /\ AllTitled) =>
        /\ Cardinality(ResultTitles) >= 3 => IsMsg(clarify_msg)
        /\ (Cardinality(ResultTitles) < 3 /\ ~NamedActFires) =>
              /\ clarify_msg = NoMsg
              /\ pc \in {"ask_generate", "ask_done"}
              /\ pc = "ask_done" => Called("generation") /\ ctx # Nil

\* C17 (as claimed): on any query and any final list of dense hits and
\* lexical records, titled or not, the gate returns a message or None and
\* never raises.
C17_GateTotal ==
    (InRequest /\ Called("need_clarify")) =>
        /\ clarify_msg # Raised
        /\ clarify_msg = NoMsg \/ IsMsg(clarify_msg)

\* where the gate does return: when the query names no known act, or no
\* final result is a lexical record without title
GateTotalWhenTitled ==
    (InRequest /\ Called("need_clarify")
        /\ \/ \A n \in DOMAIN hints : ~Names(req.query, hints[n])
           \/ \A i \in DOMAIN norm :
                 ~(get(norm[i].title, <<>>) = None
                     /\ ~Truthy(get(norm[i].meta.title, <<>>)))) =>
        clarify_msg # Raised

\* the corpus has been indexed and loaded, or the attempt has ended
LoadIsOver == pc \notin {"index", "startup"}
\* the chunk of a well-formed line is in the loaded corpus / the collection
Loaded(line) == \E i \in DOMAIN RECORDS : RECORDS[i].id = line.metadata.chunk_id
Indexed(line) == \E i \in DOMAIN COL : COL[i].id = line.metadata.chunk_id

\* C16 (as claimed): when one line of the corpus file lacks a required
\* field, that line alone is rejected: every other line is still indexed
\* and loaded, and the service comes up.
C16_MalformedIsolation ==
    LoadIsOver =>
        /\ \A i \in DOMAIN jsonl :
              ~is_malformed(jsonl[i]) => Loaded(jsonl[i]) /\ Indexed(jsonl[i])
        /\ pc # "startup_failed"

\* what the loaders do give: a well-formed file is indexed and loaded whole,
\* and of a file with a malformed line nothing is
LoadIsAllOrNothing ==
    LoadIsOver =>
        IF \E i \in DOMAIN jsonl : is_malformed(jsonl[i])
        THEN RECORDS = <<>> /\ COL = <<>> /\ pc = "startup_failed"
        ELSE /\ Len(RECORDS) = Len(jsonl) /\ Len(COL) = Len(jsonl)
             /\ \A i \in DOMAIN jsonl : Loaded(jsonl[i]) /\ Indexed(jsonl[i])

---------------------------------------------------------------------------
(* The corpus file from ingestion to the citation: the ingestion script,   *)
(* then the service's load and the citation of each chunk                  *)

\* app.py startup: RECORDS = load_jsonl(JSONL_PATH) on the file written
CorpusLoad ==
    /\ pc = "ing_done"
    /\ RECORDS' = load_jsonl(jsonl)
    /\ pc' = "corpus_loaded"
    /\ UNCHANGED <<COL, BM25_DEFAULT, req, norm, clarify_msg, ctx, response,
                   calls, fusionVars, chunkVars, ingestVars, normVars,
                   sectionVars>>

\* the context block and the source item of each chunk when it is among the
\* final results of a request: build_context and the SourceItem list of ask
CorpusCite ==
    /\ pc = "corpus_loaded"
    /\ norm' = RECORDS
    /\ ctx' = build_context(RECORDS)
    /\ response' = answer_response(RECORDS)
    /\ pc' = "corpus_cited"
    /\ UNCHANGED <<COL, RECORDS, BM25_DEFAULT, req, clarify_msg, calls,
                   fusionVars, chunkVars, ingestVars, normVars, sectionVars>>

NextIngest ==
    \/ IngestCleanSort \/ IngestMerge \/ IngestEnrich \/ IngestSave
    \/ CorpusLoad \/ CorpusCite

SpecIngest == InitIngest /\ [][NextIngest]_vars

\* C15 (as claimed): a section number extracted at ingestion is in the
\* metadata of the record written to the corpus file, so the loaded record,
\* its context header and its source item carry that number; the number is
\* missing at query time only where extraction found none.
C15_SectionReachesCitation ==
    /\ Saved =>
          \A i \in DOMAIN out_records :
              out_records[i].section_no # NoMatch =>
                  jsonl[i].metadata.section_no = out_records[i].section_no
    /\ pc = "corpus_cited" =>
          \A i \in DOMAIN out_records :
              /\ out_records[i].section_no # NoMatch =>
                    /\ ctx[i].section = out_records[i].section_no
                    /\ response.sources[i].section_no = out_records[i].section_no
              /\ ctx[i].section = None => out_records[i].section_no = NoMatch

\* what the corpus file does carry: the text and the title of every record,
\* and no section number, whatever was extracted
SectionDroppedAtSave ==
    /\ Saved =>
          \A i \in DOMAIN out_records :
              /\ jsonl[i].text = out_records[i].text
              /\ jsonl[i].metadata.title = out_records[i].metadata.title
              /\ get(jsonl[i].metadata.section_no, None) = None
    /\ pc = "corpus_cited" =>
          \A i \in DOMAIN out_records :
              /\ ctx[i].section = None
              /\ response.sources[i].section_no = None
              /\ ctx[i].title = out_records[i].metadata.title

---------------------------------------------------------------------------
(* acts_scraper.py container_to_canonical_text, lines 128-131, and          *)
(* text_sha1, lines 133-134                                                *)

\* "\n".join(parts)
RECURSIVE join_lines(_)
join_lines(parts) ==
    IF parts = <<>> THEN <<>>
    ELSE IF Len(parts) = 1 THEN parts[1]
    ELSE parts[1] \o <<NL>> \o join_lines(Tail(parts))

\* soup.get_text("\n", strip=True): every text node stripped, the empty
\* ones dropped, the rest joined by a newline
get_text(nodes) ==
    LET stripped == [i \in DOMAIN nodes |-> strip(nodes[i])]
        nonEmpty(n) == n # <<>>
    IN  join_lines(SelectSeq(stripped, nonEmpty))

\* re.sub(r"\n{3,}", "\n\n", text): every maximal run of 3 or more newlines
\* becomes 2
RECURSIVE collapse_newlines(_, _, _)
collapse_newlines(s, i, acc) ==
    IF i > Len(s) THEN acc
    ELSE IF s[i] = NL
         THEN LET j == skip_newlines(s, i)
              IN  collapse_newlines(s, j,
                      acc \o (IF j - i >= 3 THEN <<NL, NL>>
                              ELSE SubSeq(s, i, j - 1)))
         ELSE collapse_newlines(s, i + 1, Append(acc, s[i]))

\* re.sub(r"[ \t]+\n", "\n", text): a run of spaces and tabs that ends at a
\* newline is removed; pending is the run read and not yet written
RECURSIVE strip_line_ends(_, _, _, _)
strip_line_ends(s, i, pending, acc) ==
    IF i > Len(s) THEN acc \o pending
    ELSE IF s[i] \in {SP, TAB}
         THEN strip_line_ends(s, i + 1, Append(pending, s[i]), acc)
    ELSE IF s[i] = NL
         THEN strip_line_ends(s, i + 1, <<>>, Append(acc, NL))
    ELSE strip_line_ends(s, i + 1, <<>>, (acc \o pending) \o <<s[i]>>)

\* lines 129-130: the two substitutions in their order
post_process(t) == strip_line_ends(collapse_newlines(t, 1, <<>>), 1, <<>>, <<>>)

\* text_sha1: equal digests for equal texts, and only for those
text_sha1(t) == <<"sha1", t>>

NormAlphabet == {"a", SP, TAB, NL}

\* a container of one or two text nodes
InitNormalize ==
    /\ pc = "norm_get_text"
    /\ \E s \in Strs(NormAlphabet, MaxNormLen) :
          \/ strings = <<s>>
          \/ \E cut \in 1..(Len(s) - 1) :
                strings = <<SubSeq(s, 1, cut), SubSeq(s, cut + 1, Len(s))>>
    /\ text = Nil
    /\ renorm = Nil
    /\ FusionIdle
    /\ ChunkIdle
    /\ IngestIdle
    /\ AskIdle
    /\ SectionIdle

\* line 128
NormGetText ==
    /\ pc = "norm_get_text"
    /\ text' = get_text(strings)
    /\ pc' = "norm_post"
    /\ UNCHANGED <<strings, renorm, fusionVars, chunkVars, ingestVars, askVars,
                   sectionVars>>

\* lines 129-131: the canonical text
NormPostProcess ==
    /\ pc = "norm_post"
    /\ text' = post_process(text)
    /\ pc' = "norm_again"
    /\ UNCHANGED <<strings, renorm, fusionVars, chunkVars, ingestVars, askVars,
                   sectionVars>>

\* a further pass of lines 129-130 over the canonical text
NormAgain ==
    /\ pc = "norm_again"
    /\ renorm' = post_process(text)
    /\ pc' = "norm_done"
    /\ UNCHANGED <<strings, text, fusionVars, chunkVars, ingestVars, askVars,
                   sectionVars>>

NextNormalize == NormGetText \/ NormPostProcess \/ NormAgain
SpecNormalize == InitNormalize /\ [][NextNormalize]_vars

\* three newlines in a row somewhere in s
HasTripleNewline(s) ==
    \E i \in 1..(Len(s) - 2) : s[i] = NL /\ s[i + 1] = NL /\ s[i + 2] = NL

\* C11 (as claimed): post-processing the canonical text again returns it
\* unchanged, so its SHA-1 is the same after the further pass, and the
\* canonical text never has 3 or more newlines in a row.
C11_NormalizeIdempotent ==
    pc = "norm_done" =>
        /\ renorm = text
        /\ text_sha1(renorm) = text_sha1(text)
        /\ ~HasTripleNewline(text)

\* what the two substitutions do give: no space or tab is left before a
\* newline of the canonical text, and a third pass changes nothing more
NormalizeSettles ==
    pc = "norm_done" =>
        /\ \A i \in 1..(Len(text) - 1) : text[i + 1] = NL => text[i] \notin {SP, TAB}
        /\ post_process(renorm) = renorm

---------------------------------------------------------------------------
(* extract_section_no on chunk texts                                       *)

\* a run of HeadLen characters without digit, keyword or bracket
Filler == [i \in 1..HeadLen |-> "x"]
\* the pieces a chunk text is made of: "Section 1", "Article 2", "s. 3",
\* a line-leading "4. ", a list marker "(s)", a letter, a space, a newline,
\* the long run
Fragments ==
    {<<"T", SP, "1">>, <<"A", SP, "2">>, <<"s", ".", SP, "3">>,
     <<"4", ".", SP>>, <<"(", "s", ")">>, <<"x">>, <<SP>>, <<NL>>, Filler}

RECURSIVE concat(_)
concat(parts) == IF parts = <<>> THEN <<>> ELSE Head(parts) \o concat(Tail(parts))

InitSection ==
    /\ pc = "sec_extract"
    /\ \E parts \in Strs(Fragments, MaxFragments) : sec_text = concat(parts)
    /\ section_no = Nil
    /\ FusionIdle
    /\ ChunkIdle
    /\ IngestIdle
    /\ AskIdle
    /\ NormIdle

\* sec = extract_section_no(text)
SectionExtract ==
    /\ pc = "sec_extract"
    /\ section_no' = extract_section_no(sec_text)
    /\ pc' = "sec_done"
    /\ UNCHANGED <<sec_text, fusionVars, chunkVars, ingestVars, askVars,
                   normVars>>

NextSection == SectionExtract
SpecSection == InitSection /\ [][NextSection]_vars


\* C14 (as claimed): the result is the numeral of the first matcher that
\* matches in the order (a) Section or Article, (b) "s. N", (c) a number
\* and a period at the start of a line; (c) is suppressed by a "(letter)"
\* marker in the first 120 characters; a text with an Article mention (and
\* no Section mention) yields the article number; nothing matching gives
\* None.
C14_SectionPrecedence ==
    pc = "sec_done" =>
        IF search_section(sec_text) # NoMatch \/ search_article(sec_text) # NoMatch
        THEN section_no \in ({search_section(sec_text),
                              search_article(sec_text)} \ {NoMatch})
        ELSE IF search_abbrev(sec_text) # NoMatch
        THEN section_no = search_abbrev(sec_text)
        ELSE IF search_line_start(sec_text) # NoMatch
                  /\ ~has_list_marker(Take(sec_text, HeadLen))
        THEN section_no = search_line_start(sec_text)
        ELSE section_no = NoMatch

\* the order the function does follow: Section, "s. N", the line-leading
\* number (None when a list marker is in the head), and Article last
ArticleIsLastResort ==
    pc = "sec_done" =>
        IF search_section(sec_text) # NoMatch
        THEN section_no = search_section(sec_text)
        ELSE IF search_abbrev(sec_text) # NoMatch
        THEN section_no = search_abbrev(sec_text)
        ELSE IF search_line_start(sec_text) # NoMatch
        THEN section_no = IF has_list_marker(Take(sec_text, HeadLen))
                          THEN NoMatch
                          ELSE search_line_start(sec_text)
        ELSE section_no = search_article(sec_text)

===========================================================================
